---------------------------- MODULE Spec2Model ----------------------------
(***************************************************************************)
(* A model of the panel pipeline of greeny03/coding-sample:                *)
(*   DataProcessor._data_loader   (src/DataProcessor.py)                   *)
(*   DataProcessor._data_cleaner  (src/DataProcessor.py)                   *)
(*   DataAnalyzer.*               (src/DataAnalyzer.py)                    *)
(*   MapMaker._map_figure's state_list (src/MapMaker.py)                   *)
(*                                                                         *)
(* A pandas DataFrame is a sequence of rows (records keyed by column       *)
(* name); row order and duplicate rows are kept, as pandas keeps them.     *)
(* A missing numeric cell (NaN) is the number NaN below, a missing text    *)
(* cell is the string NaNStr.  Whole-number columns are integers; the      *)
(* values float arithmetic produces are binary64 floats, rounded as the    *)
(* hardware rounds them.                                                   *)
(***************************************************************************)
EXTENDS Integers, Sequences, FiniteSets, TLC

VARIABLES
    pc,                 \* where the run of the script stands
    processor,          \* DataProcessor's fields (self.start, self.end, ...)
    raw,                \* the "Raw Data" directory: folder name -> file
    loaded,             \* what _data_loader did: [status, panel, message]
    panel_data,         \* the panel handed to _data_cleaner
    cleaned,            \* what _data_cleaner did: [status, rows, steps]
    recleaned,          \* _data_cleaner applied to its own output
    analyzer,           \* DataAnalyzer's fields (clean_data, year, formula)
    state_data,         \* result of _aggregate_per_student_grant
    simulated_data,     \* result of _simulater
    summary             \* what _summary_statistics built

vars == <<pc, processor, raw, loaded, panel_data, cleaned, recleaned,
          analyzer, state_data, simulated_data, summary>>

-----------------------------------------------------------------------------
(* Bounds of the model *)

\* rows of the panel handed to the cleaner
MaxRows == 3
\* years of the panel: end - start + 1 is at most MaxYears
MaxYears == 2

\* the first year of every panel of the model (main.py uses 2010)
BaseYear == 2010

-----------------------------------------------------------------------------
(* Values *)

\* a missing numeric cell: what pandas reads from an empty csv field
NaN == -999
\* a missing text cell
NaNStr == "NaN"

Range(s) == {s[i] : i \in DOMAIN s}

\* the columns of the panel after the rename of _data_loader
PanelColumns == <<"ID_IPEDS", "stabbr", "highest_degree", "degree_bach",
                  "public", "enroll_ftug", "grant_federal", "year">>

\* pandas isna on one cell of a panel row
IsNa(r, c) == IF c = "stabbr" THEN r[c] = NaNStr ELSE r[c] = NaN

-----------------------------------------------------------------------------
(* DataProcessor._data_loader *)

\* str(year)[-2:] as a number
LastTwo(year) == year % 100

\* folder.lower() for f"HD{year}" and f"SFA{str(year - 1)[-2:]}{str(year)[-2:]}":
\* the prefix and the digits that follow it
HdKey(year) == [prefix |-> "hd", digits |-> year]
SfaKey(year) ==
    [prefix |-> "sfa", digits |-> LastTwo(year - 1) * 100 + LastTwo(year)]

\* range(self.start + 1, self.end + 2)
FolderYears(self) == [i \in 1 .. (self.end - self.start + 1) |-> self.start + i]

\* folders, in the order Step 1 visits them
Folders(self) ==
    [k \in 1 .. (2 * Len(FolderYears(self))) |->
        IF k % 2 = 1 THEN HdKey(FolderYears(self)[(k + 1) \div 2])
        ELSE SfaKey(FolderYears(self)[k \div 2])]

HdColumns == {"UNITID", "STABBR", "HLOFFER", "UGOFFER", "CONTROL"}
SfaColumns == {"UNITID", "SCUGFFN", "FGRNT_T"}

\* os.path.exists(csv_path) and pd.read_csv without an exception
Loadable(file) == file.status = "ok"

\* the first folder of Step 1 whose file is missing or cannot be read; 0 if
\* every file loads
RECURSIVE FirstUnloadable(_, _, _)
FirstUnloadable(folders, fs, k) ==
    IF k > Len(folders) THEN 0
    ELSE IF ~Loadable(fs[folders[k]]) THEN k
    ELSE FirstUnloadable(folders, fs, k + 1)

\* the first year of Step 2 whose tables lack a required column; 0 if none
RECURSIVE FirstKeyError(_, _, _)
FirstKeyError(years, fs, j) ==
    IF j > Len(years) THEN 0
    ELSE IF ~(HdColumns \subseteq fs[HdKey(years[j])].columns
              /\ SfaColumns \subseteq fs[SfaKey(years[j])].columns) THEN j
    ELSE FirstKeyError(years, fs, j + 1)

\* pd.merge(hd_df, sfa_df, on='UNITID', how='inner'): for each row of hd_df
\* in order, its matches in sfa_df in order
RECURSIVE Merge(_, _)
Merge(hd_df, sfa_df) ==
    IF hd_df = <<>> THEN <<>>
    ELSE LET h == Head(hd_df)
             matches == SelectSeq(sfa_df, LAMBDA f : f.UNITID = h.UNITID)
         IN  [i \in DOMAIN matches |->
                [UNITID |-> h.UNITID, STABBR |-> h.STABBR,
                 HLOFFER |-> h.HLOFFER, UGOFFER |-> h.UGOFFER,
                 CONTROL |-> h.CONTROL, SCUGFFN |-> matches[i].SCUGFFN,
                 FGRNT_T |-> matches[i].FGRNT_T]]
               \o Merge(Tail(hd_df), sfa_df)

\* a recoding that takes the code 2 ("No") for false and the rest for true
RecodeNotTwo(x) == IF x = 2 THEN 0 ELSE 1
\* lambda x: 1 if x == 1 else 0
Recode(x) == IF x = 1 THEN 1 ELSE 0

\* Steps 2 to 5 for the years from the j-th on: merge, tag with the year,
\* concatenate, rename, recode
RECURSIVE PanelFrom(_, _, _)
PanelFrom(years, fs, j) ==
    IF j > Len(years) THEN <<>>
    ELSE LET merged == Merge(fs[HdKey(years[j])].rows,
                             fs[SfaKey(years[j])].rows)
         IN  [i \in DOMAIN merged |->
                [ID_IPEDS |-> merged[i].UNITID,
                 stabbr |-> merged[i].STABBR,
                 highest_degree |-> merged[i].HLOFFER,
                 degree_bach |-> Recode(merged[i].UGOFFER),
                 public |-> Recode(merged[i].CONTROL),
                 enroll_ftug |-> merged[i].SCUGFFN,
                 grant_federal |-> merged[i].FGRNT_T,
                 year |-> years[j] - 1]]
               \o PanelFrom(years, fs, j + 1)

\* the years whose two files load and hold the required columns
UsableYears(years, fs) ==
    SelectSeq(years,
        LAMBDA y : /\ Loadable(fs[HdKey(y)]) /\ Loadable(fs[SfaKey(y)])
                   /\ HdColumns \subseteq fs[HdKey(y)].columns
                   /\ SfaColumns \subseteq fs[SfaKey(y)].columns)

\* a loader that leaves out the years it cannot load
DataLoaderSkipping(self, fs) ==
    [status |-> "returned",
     panel |-> PanelFrom(UsableYears(FolderYears(self), fs), fs, 1),
     message |-> [text |-> "", key |-> HdKey(0)]]
\* _data_loader(self) on the directory fs.  status is "returned", "exit"
\* (sys.exit(1) after the message) or the exception raised.
DataLoader(self, fs) ==
    LET years == FolderYears(self)
        folders == Folders(self)
        unloadable == FirstUnloadable(folders, fs, 1)
        keyerror == FirstKeyError(years, fs, 1)
    IN  IF unloadable # 0
        THEN [status |-> "exit", panel |-> <<>>,
              message |-> [text |-> IF fs[folders[unloadable]].status = "missing"
                                    THEN "not found" ELSE "Failed to load",
                           key |-> folders[unloadable]]]
        ELSE IF keyerror # 0
        THEN [status |-> "exit", panel |-> <<>>,
              message |-> [text |-> "Required variable missing",
                           key |-> HdKey(years[keyerror])]]
        ELSE IF years = <<>>
        THEN [status |-> "ValueError", panel |-> <<>>,
              message |-> [text |-> "No objects to concatenate",
                           key |-> HdKey(0)]]
        ELSE [status |-> "returned", panel |-> PanelFrom(years, fs, 1),
              message |-> [text |-> "", key |-> HdKey(0)]]

-----------------------------------------------------------------------------
(* DataProcessor._data_cleaner *)

\* Step 1: panel_data_clean[panel_data_clean['degree_bach'] == 1]
DegreeFilter(rows) == SelectSeq(rows, LAMBDA r : r.degree_bach = 1)

\* the isinstance tests of Step 2
ShapeAcceptedLoose(es) == es.shape \in {"str", "list", "tuple"}
ShapeAccepted(es) == es.shape \in {"str", "list"}

\* exclude_list: a str is wrapped into a one-element list, a list is used
\* as it is (es.text is the value of a str, es.items the items otherwise)
ExcludeList(es) == IF es.shape = "str" THEN <<es.text>> ELSE es.items

\* panel_data_clean[~panel_data_clean['stabbr'].isin(exclude_list)]
StateFilter(rows, exclude_list) ==
    SelectSeq(rows, LAMBDA r : r.stabbr \notin Range(exclude_list))

\* DataFrame.dropna(): drop every row with a missing cell in any column
DropNa(rows) ==
    SelectSeq(rows, LAMBDA r : \A i \in DOMAIN PanelColumns :
                                   ~IsNa(r, PanelColumns[i]))

\* set(range(self.start, self.end + 1))
ExpectedYears(start, end) == start .. end

\* groupby('ID_IPEDS')['year'].apply(set), for one institution
IdYears(rows, id) ==
    {rows[i].year : i \in {j \in DOMAIN rows : rows[j].ID_IPEDS = id}}

\* the comparison of an institution's year set with expected_years
YearsCompleteSubset(years, expected) == years \subseteq expected
YearsComplete(years, expected) == years = expected

\* complete_ids: the institutions whose year set is the expected one
CompleteIds(rows, start, end) ==
    {id \in {rows[i].ID_IPEDS : i \in DOMAIN rows} :
        YearsComplete(IdYears(rows, id), ExpectedYears(start, end))}

\* Step 3 with the year sets taken before the rows with missing cells go
BalanceBeforeDropNa(rows, start, end) ==
    SelectSeq(DropNa(rows),
              LAMBDA r : r.ID_IPEDS \in CompleteIds(rows, start, end))
\* Step 3: dropna, then keep the institutions of complete_ids
Balance(rows, start, end) ==
    LET dropped == DropNa(rows)
    IN  SelectSeq(dropped,
                  LAMBDA r : r.ID_IPEDS \in CompleteIds(dropped, start, end))

\* _data_cleaner with the balancing done first
DataCleanerBalanceFirst(self, panel) ==
    IF ~ShapeAccepted(self.excluding_states)
    THEN [status |-> "ValueError", rows |-> <<>>, steps |-> <<>>]
    ELSE LET s3 == IF self.balanced_panel
                   THEN Balance(panel, self.start, self.end) ELSE panel
             s1 == IF self.undergraduate_institutions
                   THEN DegreeFilter(s3) ELSE s3
             s2 == StateFilter(s1, ExcludeList(self.excluding_states))
         IN  [status |-> "returned", rows |-> s2, steps |-> <<>>]
\* _data_cleaner(self, panel_data): the status is "returned" or the
\* exception raised; steps lists the filters already applied to the working
\* copy when the method ended
DataCleaner(self, panel) ==
    LET s1 == IF self.undergraduate_institutions
              THEN DegreeFilter(panel) ELSE panel
        t1 == IF self.undergraduate_institutions
              THEN <<"degree">> ELSE <<>>
    IN  IF ~ShapeAccepted(self.excluding_states)
        THEN [status |-> "ValueError", rows |-> <<>>, steps |-> t1]
        ELSE LET s2 == StateFilter(s1, ExcludeList(self.excluding_states))
                 t2 == Append(t1, "state")
                 s3 == IF self.balanced_panel
                       THEN Balance(s2, self.start, self.end) ELSE s2
                 t3 == IF self.balanced_panel
                       THEN Append(t2, "balance") ELSE t2
             IN  [status |-> "returned", rows |-> s3, steps |-> t3]


-----------------------------------------------------------------------------
(* Numbers: Python floats (IEEE 754 binary64, round to nearest, ties to     *)
(* even).  A float is [cls, neg, m, e]: cls "num" is the number             *)
(* (-1)^neg * m * 2^e with m a natural number below 2^53, odd unless the    *)
(* float is 0 (m = 0, e = 0); cls "nan" and "inf" are nan and +-inf.  m is  *)
(* written to base 2^15, lowest digit first, without leading zero digits,   *)
(* so that no product of two digits leaves the 32-bit integers.  The        *)
(* exponent range is not modelled: the amounts and enrollments of the       *)
(* panel stay far from overflow and underflow, and -0.0 is written 0.0.     *)

Base == 2 ^ 15

RECURSIVE BigFromInt(_)
BigFromInt(n) ==
    IF n = 0 THEN <<>> ELSE <<n % Base>> \o BigFromInt(n \div Base)

RECURSIVE BigStrip(_)
BigStrip(x) ==
    IF x = <<>> \/ x[Len(x)] # 0 THEN x
    ELSE BigStrip(SubSeq(x, 1, Len(x) - 1))

Digit(x, i) == IF i <= Len(x) THEN x[i] ELSE 0

RECURSIVE BigAddFrom(_, _, _, _)
BigAddFrom(x, y, i, carry) ==
    IF i > Len(x) /\ i > Len(y)
    THEN (IF carry = 0 THEN <<>> ELSE <<carry>>)
    ELSE LET s == Digit(x, i) + Digit(y, i) + carry
         IN  <<s % Base>> \o BigAddFrom(x, y, i + 1, s \div Base)

BigAdd(x, y) == BigAddFrom(x, y, 1, 0)

RECURSIVE BigSubFrom(_, _, _, _)
BigSubFrom(x, y, i, borrow) ==
    IF i > Len(x) THEN <<>>
    ELSE LET d == Digit(x, i) - Digit(y, i) - borrow
         IN  <<(d + Base) % Base>>
                \o BigSubFrom(x, y, i + 1, IF d < 0 THEN 1 ELSE 0)

\* x - y for x >= y
BigSub(x, y) == BigStrip(BigSubFrom(x, y, 1, 0))

RECURSIVE BigCmpFrom(_, _, _)
BigCmpFrom(x, y, i) ==
    IF i = 0 THEN 0
    ELSE IF x[i] > y[i] THEN 1
    ELSE IF x[i] < y[i] THEN -1
    ELSE BigCmpFrom(x, y, i - 1)

\* 1, 0 or -1 as x is greater than, equal to or less than y
BigCmp(x, y) ==
    IF Len(x) > Len(y) THEN 1
    ELSE IF Len(x) < Len(y) THEN -1
    ELSE BigCmpFrom(x, y, Len(x))

RECURSIVE BigMulSmallFrom(_, _, _, _)
BigMulSmallFrom(x, d, i, carry) ==
    IF i > Len(x) THEN (IF carry = 0 THEN <<>> ELSE <<carry>>)
    ELSE LET s == x[i] * d + carry
         IN  <<s % Base>> \o BigMulSmallFrom(x, d, i + 1, s \div Base)

\* x * d for a digit d
BigMulSmall(x, d) == IF d = 0 THEN <<>> ELSE BigMulSmallFrom(x, d, 1, 0)

RECURSIVE BigMulFrom(_, _, _)
BigMulFrom(x, y, j) ==
    IF j > Len(y) THEN <<>>
    ELSE LET rest == BigMulFrom(x, y, j + 1)
         IN  BigAdd(BigMulSmall(x, y[j]),
                    IF rest = <<>> THEN <<>> ELSE <<0>> \o rest)

BigMul(x, y) == IF x = <<>> THEN <<>> ELSE BigMulFrom(x, y, 1)

RECURSIVE BigDivSmallFrom(_, _, _)
BigDivSmallFrom(x, d, i) ==
    IF i > Len(x) THEN [q |-> <<>>, r |-> 0]
    ELSE LET hi == BigDivSmallFrom(x, d, i + 1)
             cur == hi.r * Base + x[i]
         IN  [q |-> <<cur \div d>> \o hi.q, r |-> cur % d]

\* the largest digit d in lo .. hi with y * d <= cur
RECURSIVE MaxDigit(_, _, _, _)
MaxDigit(cur, y, lo, hi) ==
    IF lo = hi THEN lo
    ELSE LET mid == (lo + hi + 1) \div 2
         IN  IF BigCmp(BigMulSmall(y, mid), cur) <= 0
             THEN MaxDigit(cur, y, mid, hi)
             ELSE MaxDigit(cur, y, lo, mid - 1)

RECURSIVE BigDivFrom(_, _, _)
BigDivFrom(x, y, i) ==
    IF i > Len(x) THEN [q |-> <<>>, r |-> <<>>]
    ELSE LET hi == BigDivFrom(x, y, i + 1)
             cur == BigStrip(<<x[i]>> \o hi.r)
             d == MaxDigit(cur, y, 0, Base - 1)
         IN  [q |-> <<d>> \o hi.q, r |-> BigSub(cur, BigMulSmall(y, d))]

\* quotient and remainder of x by y, y > 0
BigDivMod(x, y) ==
    IF Len(y) = 1
    THEN LET z == BigDivSmallFrom(x, y[1], 1)
         IN  [q |-> BigStrip(z.q), r |-> BigFromInt(z.r)]
    ELSE LET z == BigDivFrom(x, y, 1)
         IN  [q |-> BigStrip(z.q), r |-> z.r]

\* x * 2^k and x \div 2^k
BigShl(x, k) ==
    IF x = <<>> THEN <<>>
    ELSE [i \in 1 .. (k \div 15) |-> 0] \o BigMulSmall(x, 2 ^ (k % 15))

BigShr(x, k) ==
    IF k \div 15 >= Len(x) THEN <<>>
    ELSE BigStrip(BigDivSmallFrom(SubSeq(x, (k \div 15) + 1, Len(x)),
                                  2 ^ (k % 15), 1).q)

RECURSIVE BitLen(_)
BitLen(d) == IF d = 0 THEN 0 ELSE 1 + BitLen(d \div 2)

\* the number of binary digits of x
BigBitLen(x) ==
    IF x = <<>> THEN 0 ELSE 15 * (Len(x) - 1) + BitLen(x[Len(x)])

RECURSIVE TrailingZeros(_)
TrailingZeros(d) == IF d % 2 = 1 THEN 0 ELSE 1 + TrailingZeros(d \div 2)

\* the number of zero binary digits x > 0 ends in
RECURSIVE BigTrailingZeros(_)
BigTrailingZeros(x) ==
    IF x[1] = 0 THEN 15 + BigTrailingZeros(Tail(x)) ELSE TrailingZeros(x[1])

FloatZero == [cls |-> "num", neg |-> FALSE, m |-> <<>>, e |-> 0]

FloatNaN == [cls |-> "nan", neg |-> FALSE, m |-> <<>>, e |-> 0]

FloatInf(neg) == [cls |-> "inf", neg |-> neg, m |-> <<>>, e |-> 0]

\* the float that is m * 2^e, for m below 2^53
Canonical(neg, m, e) ==
    IF m = <<>> THEN FloatZero
    ELSE LET tz == BigTrailingZeros(m)
         IN  [cls |-> "num", neg |-> neg, m |-> BigShr(m, tz), e |-> e + tz]

\* the float nearest to m * 2^e, the one with the even significand of two
\* equally near
RoundNearestEven(neg, m, e) ==
    IF BigBitLen(m) <= 53 THEN Canonical(neg, m, e)
    ELSE LET s == BigBitLen(m) - 53
             q == BigShr(m, s)
             c == BigCmp(BigSub(m, BigShl(q, s)), BigShl(<<1>>, s - 1))
         IN  Canonical(neg,
                       IF c = 1 \/ (c = 0 /\ q[1] % 2 = 1)
                       THEN BigAdd(q, <<1>>) ELSE q,
                       e + s)

\* float(n) of a whole number
FloatFromInt(n) ==
    RoundNearestEven(n < 0, BigFromInt(IF n < 0 THEN 0 - n ELSE n), 0)

FloatNeg(x) ==
    IF x.cls = "nan" \/ x = FloatZero THEN x ELSE [x EXCEPT !.neg = ~x.neg]

\* x * y
FloatMul(x, y) ==
    IF x.cls = "nan" \/ y.cls = "nan" THEN FloatNaN
    ELSE IF x.cls = "inf" \/ y.cls = "inf"
    THEN (IF x = FloatZero \/ y = FloatZero THEN FloatNaN
          ELSE FloatInf(x.neg # y.neg))
    ELSE RoundNearestEven(x.neg # y.neg, BigMul(x.m, y.m), x.e + y.e)

\* x + y
FloatAdd(x, y) ==
    IF x.cls = "nan" \/ y.cls = "nan" THEN FloatNaN
    ELSE IF x.cls = "inf"
    THEN (IF y.cls = "inf" /\ y.neg # x.neg THEN FloatNaN ELSE x)
    ELSE IF y.cls = "inf" THEN y
    ELSE LET e == IF x.e < y.e THEN x.e ELSE y.e
             a == BigShl(x.m, x.e - e)
             b == BigShl(y.m, y.e - e)
         IN  IF x.neg = y.neg THEN RoundNearestEven(x.neg, BigAdd(a, b), e)
             ELSE IF BigCmp(a, b) >= 0
             THEN RoundNearestEven(x.neg, BigSub(a, b), e)
             ELSE RoundNearestEven(y.neg, BigSub(b, a), e)

\* x - y
FloatSub(x, y) == FloatAdd(x, FloatNeg(y))

\* x / y of two numpy floats: a zero divisor gives nan or inf, no exception.
\* The quotient of the significands is taken to 56 or more binary digits
\* and one more digit records whether a remainder is left.
FloatDiv(x, y) ==
    IF x.cls = "nan" \/ y.cls = "nan" THEN FloatNaN
    ELSE IF x.cls = "inf"
    THEN (IF y.cls = "inf" THEN FloatNaN ELSE FloatInf(x.neg # y.neg))
    ELSE IF y.cls = "inf" THEN FloatZero
    ELSE IF y.m = <<>>
    THEN (IF x.m = <<>> THEN FloatNaN ELSE FloatInf(x.neg # y.neg))
    ELSE IF x.m = <<>> THEN FloatZero
    ELSE LET k == 56 + BigBitLen(y.m)
             d == BigDivMod(BigShl(x.m, k), y.m)
         IN  RoundNearestEven(x.neg # y.neg,
                              BigAdd(BigShl(d.q, 1),
                                     IF d.r = <<>> THEN <<>> ELSE <<1>>),
                              x.e - y.e - k - 1)

\* the sum of a float column as groupby(...).sum() takes it: nan cells are
\* skipped, the others are added in row order with Kahan's compensation
\* (y = val - compensation; t = sumx + y; compensation = t - sumx - y; a
\* compensation that is nan is reset to 0); no cell gives 0.0
RECURSIVE FloatSumFrom(_, _, _, _)
FloatSumFrom(values, i, sumx, compensation) ==
    IF i > Len(values) THEN sumx
    ELSE IF values[i].cls = "nan"
    THEN FloatSumFrom(values, i + 1, sumx, compensation)
    ELSE LET y == FloatSub(values[i], compensation)
             t == FloatAdd(sumx, y)
             c == FloatSub(FloatSub(t, sumx), y)
         IN  FloatSumFrom(values, i + 1, t,
                          IF c.cls = "nan" THEN FloatZero ELSE c)

FloatSumSkipNa(values) == FloatSumFrom(values, 1, FloatZero, FloatZero)

\* Series.sum() of a column of whole numbers: missing cells are skipped, an
\* empty or all-missing column sums to 0
RECURSIVE SumSkipNa(_)
SumSkipNa(values) ==
    IF values = <<>> THEN 0
    ELSE (IF Head(values) = NaN THEN 0 ELSE Head(values))
           + SumSkipNa(Tail(values))

\* the column c of a table
Column(rows, c) == [i \in DOMAIN rows |-> rows[i][c]]

-----------------------------------------------------------------------------
(* DataAnalyzer *)

\* the state codes of the model in the order groupby('stabbr') sorts them
StabbrOrder == <<"DC", "NY", "VT">>

\* self.clean_data[self.clean_data['year'] == self.year]
YearRows(rows, year) == SelectSeq(rows, LAMBDA r : r.year = year)

\* the group keys of groupby('stabbr'), sorted; a missing key has no group
GroupKeys(rows) ==
    SelectSeq(StabbrOrder, LAMBDA s : \E i \in DOMAIN rows : rows[i].stabbr = s)

\* the rows of one group
Group(rows, s) == SelectSeq(rows, LAMBDA r : r.stabbr = s)

\* the ratio without the test of the denominator
UnguardedDivide(total, enroll) ==
    FloatDiv(FloatFromInt(total), FloatFromInt(enroll))
\* row[total] / row['enroll_ftug'] if row['enroll_ftug'] > 0 else 0
SafeDivide(total, enroll) ==
    IF enroll > 0 THEN FloatDiv(FloatFromInt(total), FloatFromInt(enroll))
    ELSE FloatZero

\* the aggregation over every year of the panel
AggregateAllYears(self) ==
    LET keys == GroupKeys(self.clean_data)
    IN  [k \in DOMAIN keys |->
            LET g == Group(self.clean_data, keys[k])
                grant == SumSkipNa(Column(g, "grant_federal"))
                enroll == SumSkipNa(Column(g, "enroll_ftug"))
            IN  [stabbr |-> keys[k], grant_federal |-> grant,
                 enroll_ftug |-> enroll,
                 per_student_federal_grant |-> SafeDivide(grant, enroll),
                 year |-> self.year]]
\* _aggregate_per_student_grant(self)
AggregatePerStudentGrant(self) ==
    LET data_year == YearRows(self.clean_data, self.year)
        keys == GroupKeys(data_year)
    IN  [k \in DOMAIN keys |->
            LET g == Group(data_year, keys[k])
                grant == SumSkipNa(Column(g, "grant_federal"))
                enroll == SumSkipNa(Column(g, "enroll_ftug"))
            IN  [stabbr |-> keys[k], grant_federal |-> grant,
                 enroll_ftug |-> enroll,
                 per_student_federal_grant |-> SafeDivide(grant, enroll),
                 year |-> self.year]]

\* a * enroll + b * enroll ** 2 for one school; nan when enroll is missing
SimulatedGrant(a, b, enroll) ==
    IF enroll = NaN THEN FloatNaN
    ELSE FloatAdd(FloatMul(a, FloatFromInt(enroll)),
                  FloatMul(b, FloatFromInt(enroll * enroll)))

\* the simulation with the formula applied to the state's total enrollment
SimulaterStateLevel(self) ==
    LET a == self.formula[1]
        b == self.formula[2]
        df == YearRows(self.clean_data, self.year)
        keys == GroupKeys(df)
    IN  [k \in DOMAIN keys |->
            LET g == Group(df, keys[k])
                enroll == SumSkipNa(Column(g, "enroll_ftug"))
                total == SimulatedGrant(a, b, enroll)
            IN  [year |-> self.year, stabbr |-> keys[k],
                 grant_per_student_simulated |->
                    IF enroll > 0
                    THEN FloatDiv(total, FloatFromInt(enroll))
                    ELSE FloatZero]]
\* _simulater(self)
Simulater(self) ==
    LET a == self.formula[1]
        b == self.formula[2]
        df == YearRows(self.clean_data, self.year)
        keys == GroupKeys(df)
    IN  [k \in DOMAIN keys |->
            LET g == Group(df, keys[k])
                enroll == SumSkipNa(Column(g, "enroll_ftug"))
                total == FloatSumSkipNa(
                             [i \in DOMAIN g |->
                                 SimulatedGrant(a, b, g[i].enroll_ftug)])
            IN  [year |-> self.year, stabbr |-> keys[k],
                 grant_per_student_simulated |->
                    IF enroll > 0
                    THEN FloatDiv(total, FloatFromInt(enroll))
                    ELSE FloatZero]]

\* census_regions of _summary_statistics, in the order the dict lists them
census_regions_overlap ==
    << [region |-> "Northeast",
        states |-> <<"ME", "NH", "VT", "MA", "RI", "CT", "NY", "NJ", "PA">>],
       [region |-> "Midwest",
        states |-> <<"OH", "IN", "IL", "MI", "WI", "MN", "IA", "MO", "ND",
                     "SD", "NE", "KS">>],
       [region |-> "South",
        states |-> <<"DE", "MD", "VA", "WV", "NC", "SC", "GA", "FL", "KY",
                     "TN", "MS", "AL", "OK", "TX", "AR", "MO">>],
       [region |-> "West",
        states |-> <<"WA", "OR", "CA", "NV", "ID", "MT", "WY", "CO", "NM",
                     "AZ", "UT", "AK", "HI">>] >>
census_regions ==
    << [region |-> "Northeast",
        states |-> <<"ME", "NH", "VT", "MA", "RI", "CT", "NY", "NJ", "PA">>],
       [region |-> "Midwest",
        states |-> <<"OH", "IN", "IL", "MI", "WI", "MN", "IA", "MO", "ND",
                     "SD", "NE", "KS">>],
       [region |-> "South",
        states |-> <<"DE", "MD", "VA", "WV", "NC", "SC", "GA", "FL", "KY",
                     "TN", "MS", "AL", "OK", "TX", "AR", "LA">>],
       [region |-> "West",
        states |-> <<"WA", "OR", "CA", "NV", "ID", "MT", "WY", "CO", "NM",
                     "AZ", "UT", "AK", "HI">>] >>

\* state_list of MapMaker._map_figure
state_list ==
    <<"AL", "AK", "AZ", "AR", "CA", "CO", "CT", "DE", "FL", "GA",
      "HI", "ID", "IL", "IN", "IA", "KS", "KY", "LA", "ME", "MD",
      "MA", "MI", "MN", "MS", "MO", "MT", "NE", "NV", "NH", "NJ",
      "NM", "NY", "NC", "ND", "OH", "OK", "OR", "PA", "RI", "SC",
      "SD", "TN", "TX", "UT", "VT", "VA", "WA", "WV", "WI", "WY">>

\* the two loops that fill state_to_region: a later assignment to the same
\* state replaces an earlier one
RECURSIVE AssignStates(_, _, _)
AssignStates(map, region, states) ==
    IF states = <<>> THEN map
    ELSE AssignStates(
            [s \in DOMAIN map \cup {Head(states)} |->
                IF s = Head(states) THEN region ELSE map[s]],
            region, Tail(states))

RECURSIVE AssignRegions(_, _)
AssignRegions(map, regions) ==
    IF regions = <<>> THEN map
    ELSE AssignRegions(
            AssignStates(map, Head(regions).region, Head(regions).states),
            Tail(regions))

state_to_region == AssignRegions(<<>>, census_regions)

\* data['stabbr'].map(state_to_region): a state the dict lacks maps to nan
MapRegion(map, s) == IF s \in DOMAIN map THEN map[s] ELSE NaNStr

\* the group keys of groupby('census_region'), sorted; nan has no group
RegionOrder == <<"Midwest", "Northeast", "South", "West">>

\* _summary_statistics(self, data, col), as far as the tables go: the
\* count of desc_stats and, for each region, the values its mean and
\* variance are taken of.  data is the caller's table with the column
\* census_region assigned in place.
SummaryStatistics(data, col) ==
    LET map == state_to_region
        marked == [i \in DOMAIN data |->
                     [c \in DOMAIN data[i] \cup {"census_region"} |->
                        IF c = "census_region"
                        THEN MapRegion(map, data[i].stabbr)
                        ELSE data[i][c]]]
        keys == SelectSeq(RegionOrder,
                    LAMBDA g : \E i \in DOMAIN marked :
                                  marked[i].census_region = g)
    IN  [status |-> "returned",
         state_to_region |-> map,
         data |-> marked,
         count |-> Len(data),
         region_stats |->
            [k \in DOMAIN keys |->
                [census_region |-> keys[k],
                 values |-> Column(SelectSeq(marked,
                               LAMBDA r : r.census_region = keys[k]), col)]]]

\* no call made yet
NoResult == [status |-> "none", rows |-> <<>>, steps |-> <<>>]

-----------------------------------------------------------------------------
(* The cleaner on the panels a loader can hand it *)

UnitIds == {1, 2}

\* the values of excluding_states tried: lists, a single code, and shapes
\* that are neither a str nor a list
ExcludingStates ==
    { [shape |-> "list", text |-> "", items |-> <<>>],
      [shape |-> "list", text |-> "", items |-> <<"DC">>],
      [shape |-> "str", text |-> "DC", items |-> <<>>],
      [shape |-> "tuple", text |-> "", items |-> <<"DC">>],
      [shape |-> "NoneType", text |-> "", items |-> <<>>] }

Processors ==
    [start : {BaseYear},
     end : BaseYear .. (BaseYear + MaxYears - 1),
     balanced_panel : BOOLEAN,
     excluding_states : ExcludingStates,
     undergraduate_institutions : BOOLEAN]

NoProcessor ==
    [start |-> BaseYear, end |-> BaseYear, balanced_panel |-> FALSE,
     excluding_states |-> [shape |-> "list", text |-> "", items |-> <<>>],
     undergraduate_institutions |-> FALSE]

\* rows a loaded panel can hold: degree_bach and public are 0/1, the year
\* lies in [start, end], enrollment may be missing.  A row departs from the
\* plain one (NY, bachelor's degree, enrollment known) in at most one cell.
Departures(r) ==
    (IF r.degree_bach = 0 THEN 1 ELSE 0) + (IF r.stabbr = "DC" THEN 1 ELSE 0)
      + (IF r.enroll_ftug = NaN THEN 1 ELSE 0)

PanelRows(start, end) ==
    {r \in [ID_IPEDS : UnitIds, stabbr : {"NY", "DC"}, highest_degree : {9},
            degree_bach : {0, 1}, public : {1}, enroll_ftug : {100, NaN},
            grant_federal : {30000}, year : start .. end] :
        Departures(r) <= 1}

\* the loader concatenates the years in ascending order
YearSorted(rows) ==
    \A i \in 1 .. (Len(rows) - 1) : rows[i].year <= rows[i + 1].year

Panels(start, end) ==
    {rows \in UNION {[1 .. n -> PanelRows(start, end)] : n \in 0 .. MaxRows} :
        YearSorted(rows)}

NoAnalyzer == [clean_data |-> <<>>, year |-> BaseYear, formula |-> <<>>]
NoSummary ==
    [status |-> "none", state_to_region |-> <<>>, data |-> <<>>, count |-> 0,
     region_stats |-> <<>>]
NoLoad ==
    [status |-> "none", panel |-> <<>>,
     message |-> [text |-> "", key |-> HdKey(0)]]

InitCleaner ==
    /\ pc = "clean"
    /\ \E end \in BaseYear .. (BaseYear + MaxYears - 1) :
          /\ panel_data \in Panels(BaseYear, end)
          /\ processor \in {p \in Processors : p.end = end}
    /\ raw = <<>>
    /\ loaded = NoLoad
    /\ cleaned = NoResult
    /\ recleaned = NoResult
    /\ analyzer = NoAnalyzer
    /\ state_data = <<>>
    /\ simulated_data = <<>>
    /\ summary = NoSummary

\* df = processor._data_cleaner(panel_data = df)
Clean ==
    /\ pc = "clean"
    /\ cleaned' = DataCleaner(processor, panel_data)
    /\ pc' = IF cleaned'.status = "returned" THEN "reclean" ELSE "raised"
    /\ UNCHANGED <<processor, raw, loaded, panel_data, recleaned, analyzer,
                   state_data, simulated_data, summary>>

\* the cleaner applied again, to its own output, with the same settings
Reclean ==
    /\ pc = "reclean"
    /\ recleaned' = DataCleaner(processor, cleaned.rows)
    /\ pc' = "recleaned"
    /\ UNCHANGED <<processor, raw, loaded, panel_data, cleaned, analyzer,
                   state_data, simulated_data, summary>>

NextCleaner == Clean \/ Reclean

SpecCleaner == InitCleaner /\ [][NextCleaner]_vars


-----------------------------------------------------------------------------
(* Claims about the cleaner *)

\* the rows the balancing step receives: the panel after Steps 1 and 2
BeforeBalance ==
    LET s1 == IF processor.undergraduate_institutions
              THEN DegreeFilter(panel_data) ELSE panel_data
    IN  StateFilter(s1, ExcludeList(processor.excluding_states))

\* a row without a missing cell, spelled out column by column
Complete(r) ==
    /\ r.ID_IPEDS # NaN /\ r.stabbr # NaNStr /\ r.highest_degree # NaN
    /\ r.degree_bach # NaN /\ r.public # NaN /\ r.enroll_ftug # NaN
    /\ r.grant_federal # NaN /\ r.year # NaN

\* C1: with balanced_panel = True, the cleaner applied to its own output
\* (same start, end, excluding_states, undergraduate_institutions) returns
\* exactly the rows of the first application.
C1_BalancedIdempotent ==
    (pc = "recleaned" /\ processor.balanced_panel)
        => (recleaned.status = "returned" /\ recleaned.rows = cleaned.rows)

\* C1 witness: a balanced first pass that removed rows and kept rows, and a
\* second pass over its output.
C1_Witness ==
    /\ pc = "recleaned" /\ processor.balanced_panel
    /\ cleaned.rows # <<>>
    /\ Len(cleaned.rows) < Len(BeforeBalance)

\* the rows of `rows` without a missing cell whose institution has such a
\* row in every year of start .. end and in no other year
RowsOfCompleteInstitutions(rows, start, end) ==
    SelectSeq(rows,
        LAMBDA r : /\ Complete(r)
                   /\ \A y \in start .. end :
                         \E i \in DOMAIN rows :
                            /\ rows[i].ID_IPEDS = r.ID_IPEDS
                            /\ rows[i].year = y
                            /\ Complete(rows[i])
                   /\ \A i \in DOMAIN rows :
                         (rows[i].ID_IPEDS = r.ID_IPEDS /\ Complete(rows[i]))
                            => rows[i].year \in start .. end)

\* C2: in balanced mode an institution's rows are kept if and only if the
\* years in which it still has a row without a missing cell are exactly
\* {start, ..., end}; of a kept institution the rows without a missing cell
\* are kept, of any other institution no row is.
C2_BalancedExactYears ==
    (pc \in {"reclean", "recleaned"} /\ processor.balanced_panel)
        => cleaned.rows = RowsOfCompleteInstitutions(
                             BeforeBalance, processor.start, processor.end)

\* C2 witness: one institution covers every year and is kept; another has
\* a row without a missing cell in one year of two and loses that row.
C2_Witness ==
    /\ pc = "reclean" /\ processor.balanced_panel
    /\ processor.end > processor.start
    /\ cleaned.rows # <<>>
    /\ \E i \in DOMAIN BeforeBalance :
          /\ Complete(BeforeBalance[i])
          /\ \A k \in DOMAIN cleaned.rows :
                cleaned.rows[k].ID_IPEDS # BeforeBalance[i].ID_IPEDS

\* C7 as claimed: every shape other than a single code or a collection of
\* codes is rejected before any filter step was applied to the panel.
C7_RejectedBeforeAnyFilter ==
    (pc = "raised") => (cleaned.status = "ValueError" /\ cleaned.steps = <<>>)

\* C7 as amended: a str or a list is accepted; every other shape raises
\* ValueError before the state exclusion and the balancing, but after the
\* degree filter has run on the working copy when
\* undergraduate_institutions is set; nothing is returned.
C7_RejectedAfterDegreeFilter ==
    /\ (pc \in {"reclean", "recleaned"})
          => (processor.excluding_states.shape \in {"str", "list"}
                /\ cleaned.status = "returned")
    /\ (pc = "raised")
          => /\ processor.excluding_states.shape \notin {"str", "list"}
             /\ cleaned.status = "ValueError"
             /\ cleaned.rows = <<>>
             /\ cleaned.steps = IF processor.undergraduate_institutions
                                THEN <<"degree">> ELSE <<>>

\* C7 witness: a tuple of codes is rejected when the degree filter has
\* already dropped a row of the working copy.
C7_Witness ==
    /\ pc = "raised"
    /\ processor.excluding_states.shape = "tuple"
    /\ cleaned.steps = <<"degree">>
    /\ Len(DegreeFilter(panel_data)) < Len(panel_data)

\* C10: for every combination of the three toggles (an empty list skips the
\* state exclusion) the cleaner returns the rows obtained by applying the
\* enabled filters in the order degree, state, balance; an empty result is
\* returned like any other.
C10_FiltersComposeInOrder ==
    (pc # "clean" /\ processor.excluding_states.shape \in {"str", "list"})
        => LET ug == processor.undergraduate_institutions
               ex == processor.excluding_states
               a == IF ug THEN DegreeFilter(panel_data) ELSE panel_data
               b == IF ex.shape = "list" /\ ex.items = <<>>
                    THEN a
                    ELSE StateFilter(a, IF ex.shape = "str"
                                        THEN <<ex.text>> ELSE ex.items)
               c == IF processor.balanced_panel
                    THEN Balance(b, processor.start, processor.end) ELSE b
           IN  cleaned.status = "returned" /\ cleaned.rows = c

\* C10 witness: all three filters are enabled, each removes a row that the
\* earlier ones left, and the empty result is returned.
C10_Witness ==
    /\ pc = "reclean"
    /\ processor.undergraduate_institutions
    /\ processor.balanced_panel
    /\ processor.excluding_states.items # <<>>
    /\ Len(DegreeFilter(panel_data)) < Len(panel_data)
    /\ Len(BeforeBalance) < Len(DegreeFilter(panel_data))
    /\ BeforeBalance # <<>>
    /\ cleaned.status = "returned" /\ cleaned.rows = <<>>

-----------------------------------------------------------------------------
(* The analyzer on cleaned panels *)

\* rows of the panel handed to the analyzer
MaxAnalyzerRows == 2

\* year = 2015 of main.py
TargetYear == 2015

\* formula = [1750, 0.15] of main.py: 0.15 is the float nearest to 15 / 100
MainFormula ==
    <<FloatFromInt(1750), FloatDiv(FloatFromInt(15), FloatFromInt(100))>>

\* the formulas tried: the one of main.py, and [2, 0.5]
Formulas ==
    { MainFormula,
      <<FloatFromInt(2), FloatDiv(FloatFromInt(1), FloatFromInt(2))>> }

AnalyzerRows ==
    [stabbr : {"VT", "DC"}, highest_degree : {9}, degree_bach : {1},
     public : {1}, enroll_ftug : {0, 7, 500, NaN},
     grant_federal : {30000, NaN}, year : {BaseYear, TargetYear}]

\* the i-th row is the i-th institution's
WithIds(rows) ==
    [i \in DOMAIN rows |->
        [c \in DOMAIN rows[i] \cup {"ID_IPEDS"} |->
            IF c = "ID_IPEDS" THEN i ELSE rows[i][c]]]

AnalyzerPanels ==
    {WithIds(rows) :
        rows \in UNION {[1 .. n -> AnalyzerRows] : n \in 0 .. MaxAnalyzerRows}}

InitAnalyzer ==
    /\ pc = "aggregate"
    /\ analyzer \in [clean_data : AnalyzerPanels, year : {TargetYear},
                     formula : Formulas]
    /\ processor = NoProcessor
    /\ panel_data = <<>>
    /\ raw = <<>>
    /\ loaded = NoLoad
    /\ cleaned = NoResult
    /\ recleaned = NoResult
    /\ state_data = <<>>
    /\ simulated_data = <<>>
    /\ summary = NoSummary

\* state_data = analyzer._aggregate_per_student_grant()
Aggregate ==
    /\ pc = "aggregate"
    /\ state_data' = AggregatePerStudentGrant(analyzer)
    /\ pc' = "summarise"
    /\ UNCHANGED <<processor, raw, loaded, panel_data, cleaned, recleaned,
                   analyzer, simulated_data, summary>>

\* analyzer._summary_statistics(state_data, 'per_student_federal_grant')
SummariseStateData ==
    /\ pc = "summarise"
    /\ summary' = SummaryStatistics(state_data, "per_student_federal_grant")
    /\ state_data' = summary'.data
    /\ pc' = "simulate"
    /\ UNCHANGED <<processor, raw, loaded, panel_data, cleaned, recleaned,
                   analyzer, simulated_data>>

\* simulated_data = analyzer._simulater()
Simulate ==
    /\ pc = "simulate"
    /\ simulated_data' = Simulater(analyzer)
    /\ pc' = "summarise_simulated"
    /\ UNCHANGED <<processor, raw, loaded, panel_data, cleaned, recleaned,
                   analyzer, state_data, summary>>

\* analyzer._summary_statistics(simulated_data, 'grant_per_student_simulated')
SummariseSimulated ==
    /\ pc = "summarise_simulated"
    /\ summary' = SummaryStatistics(simulated_data,
                                    "grant_per_student_simulated")
    /\ simulated_data' = summary'.data
    /\ pc' = "analysed"
    /\ UNCHANGED <<processor, raw, loaded, panel_data, cleaned, recleaned,
                   analyzer, state_data>>

NextAnalyzer ==
    Aggregate \/ SummariseStateData \/ Simulate \/ SummariseSimulated

SpecAnalyzer == InitAnalyzer /\ [][NextAnalyzer]_vars

-----------------------------------------------------------------------------
(* Claims about the analyzer *)

\* the institutions (row numbers of clean_data) of state s in the target year
TargetInstitutions(s) ==
    {i \in DOMAIN analyzer.clean_data :
        /\ analyzer.clean_data[i].year = analyzer.year
        /\ analyzer.clean_data[i].stabbr = s}

\* the states that have a row in the target year
TargetStates == {s \in Range(StabbrOrder) : TargetInstitutions(s) # {}}

\* the sum of f[i] over the first n rows of clean_data that are in S
RECURSIVE SumOver(_, _, _)
SumOver(S, f, n) ==
    IF n = 0 THEN 0
    ELSE SumOver(S, f, n - 1) + (IF n \in S THEN f[n] ELSE 0)

Known(v) == IF v = NaN THEN 0 ELSE v

\* summed enrollment and summed grant of state s in the target year
StateEnrollment(s) ==
    SumOver(TargetInstitutions(s),
            [i \in DOMAIN analyzer.clean_data |->
                Known(analyzer.clean_data[i].enroll_ftug)],
            Len(analyzer.clean_data))

StateGrant(s) ==
    SumOver(TargetInstitutions(s),
            [i \in DOMAIN analyzer.clean_data |->
                Known(analyzer.clean_data[i].grant_federal)],
            Len(analyzer.clean_data))

\* the simulated grants of the institutions of state s in the target year,
\* in row order
InstitutionGrants(s) ==
    LET rows == SelectSeq(analyzer.clean_data,
                          LAMBDA r : r.year = analyzer.year /\ r.stabbr = s)
    IN  [i \in DOMAIN rows |->
            SimulatedGrant(analyzer.formula[1], analyzer.formula[2],
                           rows[i].enroll_ftug)]

Aggregated == pc \in {"summarise", "simulate", "summarise_simulated", "analysed"}
Simulated == pc \in {"summarise_simulated", "analysed"}

\* C3: every state of the target year has one row in the output of
\* _aggregate_per_student_grant and of _simulater; its per-student value is a
\* defined number, exactly 0 when the state's summed enrollment is 0, and
\* otherwise the summed (simulated) grant divided by the summed enrollment.
C3_ZeroEnrollmentGivesZero ==
    /\ Aggregated =>
         /\ {state_data[k].stabbr : k \in DOMAIN state_data} = TargetStates
         /\ \A k \in DOMAIN state_data :
              LET v == state_data[k].per_student_federal_grant
                  e == StateEnrollment(state_data[k].stabbr)
                  g == StateGrant(state_data[k].stabbr)
              IN  /\ v.cls = "num"
                  /\ (e = 0) => v = FloatZero
                  /\ (e # 0) => v = FloatDiv(FloatFromInt(g), FloatFromInt(e))
    /\ Simulated =>
         /\ {simulated_data[k].stabbr : k \in DOMAIN simulated_data}
               = TargetStates
         /\ \A k \in DOMAIN simulated_data :
              LET v == simulated_data[k].grant_per_student_simulated
                  e == StateEnrollment(simulated_data[k].stabbr)
              IN  /\ v.cls = "num"
                  /\ (e = 0) => v = FloatZero

\* C3 witness: a state whose institutions enrol nobody but receive grants
\* has the per-student value 0 in both outputs.
C3_Witness ==
    /\ Simulated
    /\ \E k \in DOMAIN state_data :
          /\ state_data[k].enroll_ftug = 0
          /\ state_data[k].grant_federal > 0
          /\ state_data[k].per_student_federal_grant = FloatZero
          /\ \E j \in TargetInstitutions(state_data[k].stabbr) :
                analyzer.clean_data[j].enroll_ftug = 0
    /\ \E k \in DOMAIN simulated_data :
          /\ StateEnrollment(simulated_data[k].stabbr) = 0
          /\ simulated_data[k].grant_per_student_simulated = FloatZero

\* the sum over the first n rows of clean_data that are institutions of S
\* with enrollment > 0 of m times the institution's enrollment
RECURSIVE Reconciled(_, _, _)
Reconciled(S, m, n) ==
    IF n = 0 THEN <<>>
    ELSE IF n \in S /\ analyzer.clean_data[n].enroll_ftug > 0
         THEN BigAdd(Reconciled(S, m, n - 1),
                     BigMul(m, BigFromInt(analyzer.clean_data[n].enroll_ftug)))
         ELSE Reconciled(S, m, n - 1)

\* for row k of state_data, in exact arithmetic and as whole numbers of one
\* unit 2^e: paid, the sum over the state's institutions with enrollment > 0
\* of per_student_federal_grant times enroll_ftug, and grant, the sum of
\* grant_federal over the state's institutions
ReconciledSides(k) ==
    LET v == state_data[k].per_student_federal_grant
        s == state_data[k].stabbr
        r == Reconciled(TargetInstitutions(s), v.m, Len(analyzer.clean_data))
        g == BigFromInt(StateGrant(s))
    IN  IF v.e >= 0 THEN [paid |-> BigShl(r, v.e), grant |-> g]
        ELSE [paid |-> r, grant |-> BigShl(g, 0 - v.e)]

BigDistance(x, y) == IF BigCmp(x, y) >= 0 THEN BigSub(x, y) ELSE BigSub(y, x)

\* C4 as stated: for every state of the aggregate whose summed enrollment
\* is not 0, the sum over its target-year institutions with enrollment > 0
\* of per_student_federal_grant times enroll_ftug equals the sum of
\* grant_federal over all its target-year institutions.
C4_ReconcilesExactly ==
    Aggregated =>
        \A k \in DOMAIN state_data :
            StateEnrollment(state_data[k].stabbr) # 0
              => ReconciledSides(k).paid = ReconciledSides(k).grant

\* C4 (amended): for every state of the aggregate whose summed enrollment
\* is not 0, the sum over its target-year institutions with enrollment > 0
\* of per_student_federal_grant times enroll_ftug differs from the sum of
\* grant_federal over all its target-year institutions by no more than the
\* rounding of the float division: at most 2^-53 of the grant sum.
C4_PerStudentReconciles ==
    Aggregated =>
        \A k \in DOMAIN state_data :
            StateEnrollment(state_data[k].stabbr) # 0
              => BigCmp(BigShl(BigDistance(ReconciledSides(k).paid,
                                           ReconciledSides(k).grant), 53),
                        ReconciledSides(k).grant) <= 0

\* C4 witness: a state with an institution without students and one with
\* students, both with grants, whose quotient is rounded, so that the two
\* sums differ.
C4_Witness ==
    /\ Aggregated
    /\ \E k \in DOMAIN state_data :
          /\ state_data[k].enroll_ftug > 0
          /\ state_data[k].grant_federal > 30000
          /\ ReconciledSides(k).paid # ReconciledSides(k).grant
          /\ \E i, j \in TargetInstitutions(state_data[k].stabbr) :
                /\ analyzer.clean_data[i].enroll_ftug = 0
                /\ analyzer.clean_data[i].grant_federal > 0
                /\ analyzer.clean_data[j].enroll_ftug > 0

\* the regions (numbers in census_regions) whose list holds state s
RegionsListing(s) ==
    {r \in DOMAIN census_regions : s \in Range(census_regions[r].states)}

\* the four lists hold 50 codes, none twice, and each code of state_list is
\* held by exactly one of them
RegionListsPartitionStates ==
    /\ Cardinality(Range(state_list)) = 50
    /\ Len(census_regions) = 4
    /\ {census_regions[r].region : r \in DOMAIN census_regions}
          = {"Northeast", "Midwest", "South", "West"}
    /\ Len(census_regions[1].states) + Len(census_regions[2].states)
         + Len(census_regions[3].states) + Len(census_regions[4].states) = 50
    /\ \A r \in DOMAIN census_regions :
          Cardinality(Range(census_regions[r].states))
             = Len(census_regions[r].states)
    /\ \A s \in Range(state_list) : Cardinality(RegionsListing(s)) = 1

\* the region of the list that holds the state, for each code of state_list
ListedRegion ==
    [s \in Range(state_list) |->
        IF RegionsListing(s) = {} THEN NaNStr
        ELSE census_regions[CHOOSE r \in RegionsListing(s) : TRUE].region]

\* C5: the lookup built in _summary_statistics is a total function on the
\* 50 codes of MapMaker's state_list: each code is listed once, in one of
\* the four regions, and maps to that region; the four lists are pairwise
\* disjoint, without duplicates, and hold exactly 50 codes.
C5_RegionLookupTotal ==
    (summary.status = "returned") =>
        /\ RegionListsPartitionStates
        /\ summary.state_to_region = ListedRegion

\* C5 witness: the lookup was built and a state of the table was mapped to
\* its region through it.
C5_Witness ==
    /\ summary.status = "returned"
    /\ \E k \in DOMAIN state_data :
          /\ state_data[k].stabbr = "VT"
          /\ "census_region" \in DOMAIN state_data[k]
          /\ state_data[k].census_region = "Northeast"

\* what the formula of main.py gives a single institution of 500 students
MainFormulaAt500 == SimulatedGrant(MainFormula[1], MainFormula[2], 500)

\* C9: the formula is applied to each institution and the results are then
\* summed by state: per-student simulated grant = (sum of a*e_i + b*e_i^2)
\* / (sum of e_i); one institution with enrollment 500 under (1750, 0.15)
\* contributes 912500, so a state made of it alone gets 912500 / 500.
C9_SimulatedPerInstitution ==
    Simulated =>
        /\ \A k \in DOMAIN simulated_data :
              LET s == simulated_data[k].stabbr
              IN  StateEnrollment(s) > 0
                    => simulated_data[k].grant_per_student_simulated
                         = FloatDiv(FloatSumSkipNa(InstitutionGrants(s)),
                                    FloatFromInt(StateEnrollment(s)))
        /\ analyzer.formula = MainFormula
             => /\ MainFormulaAt500 = FloatFromInt(912500)
                /\ \A k \in DOMAIN simulated_data :
                      (\E i \in DOMAIN analyzer.clean_data :
                          /\ TargetInstitutions(simulated_data[k].stabbr) = {i}
                          /\ analyzer.clean_data[i].enroll_ftug = 500)
                        => simulated_data[k].grant_per_student_simulated
                             = FloatFromInt(1825)

\* the per-student value the formula gives on a state's total enrollment
StateLevelValue(s) ==
    FloatDiv(SimulatedGrant(analyzer.formula[1], analyzer.formula[2],
                            StateEnrollment(s)),
             FloatFromInt(StateEnrollment(s)))

\* C9 witness: under (1750, 0.15) a state has two institutions with
\* students, one of them with 500, and its value differs from the one the
\* formula gives on the state's total enrollment.
C9_Witness ==
    /\ Simulated
    /\ analyzer.formula = MainFormula
    /\ \E k \in DOMAIN simulated_data :
          LET s == simulated_data[k].stabbr
          IN  /\ \E i, j \in TargetInstitutions(s) :
                    /\ i # j
                    /\ analyzer.clean_data[i].enroll_ftug = 500
                    /\ analyzer.clean_data[j].enroll_ftug = 7
              /\ simulated_data[k].grant_per_student_simulated
                    # StateLevelValue(s)

\* C12: every Analyzer operation leaves the table it is given unchanged:
\* _aggregate_per_student_grant and _simulater leave clean_data as it was,
\* and _summary_statistics leaves the table it is called on with the same
\* rows and columns as before the call.
C12_AnalyzerReadsImmutably ==
    [][/\ analyzer'.clean_data = analyzer.clean_data
       /\ pc = "summarise" => state_data' = state_data
       /\ pc = "summarise_simulated" => simulated_data' = simulated_data]_vars

-----------------------------------------------------------------------------
(* The loader on small "Raw Data" directories, followed by the cleaner *)

\* rows of all source tables of the directory together
MaxSourceRows == 3
\* files of the directory that are missing, unreadable or lack a column
MaxFaults == 1

\* what a source row of the model is drawn from: the institution and the
\* two codes of its directory row.  Institution 1 reports (1, 1), (2, none)
\* or (none, 2); institution 2 reports (1, 1).
Draws ==
    {d \in [UNITID : UnitIds, UGOFFER : {1, 2, NaN}, CONTROL : {1, 2, NaN}] :
        \/ d.UGOFFER = 1 /\ d.CONTROL = 1
        \/ d.UNITID = 1 /\ d.UGOFFER = 2 /\ d.CONTROL = NaN
        \/ d.UNITID = 1 /\ d.UGOFFER = NaN /\ d.CONTROL = 2}

HdRow(d) ==
    [UNITID |-> d.UNITID, STABBR |-> "NY", HLOFFER |-> 9,
     UGOFFER |-> d.UGOFFER, CONTROL |-> d.CONTROL]

SfaRow(d) == [UNITID |-> d.UNITID, SCUGFFN |-> 100, FGRNT_T |-> 30000]

\* the conditions a file of the directory can be in
Conditions == {"ok", "missing", "unreadable", "nocolumn"}

RECURSIVE SumTo(_, _)
SumTo(lens, k) == IF k = 0 THEN 0 ELSE lens[k] + SumTo(lens, k - 1)

\* the file of a folder: in condition "ok" it holds the required columns
\* and the n rows drawn after the first `offset` draws; in condition
\* "nocolumn" a table that lacks a required column
File(prefix, condition, n, offset, draws) ==
    IF condition = "ok"
    THEN [status |-> "ok",
          columns |-> IF prefix = "hd" THEN HdColumns ELSE SfaColumns,
          rows |-> [i \in 1 .. n |->
                      IF prefix = "hd" THEN HdRow(draws[offset + i])
                      ELSE SfaRow(draws[offset + i])]]
    ELSE IF condition = "nocolumn"
    THEN [status |-> "ok",
          columns |-> IF prefix = "hd" THEN HdColumns \ {"UGOFFER"}
                      ELSE SfaColumns \ {"FGRNT_T"},
          rows |-> <<>>]
    ELSE [status |-> condition, columns |-> {}, rows |-> <<>>]

\* the settings of main.py, over one to MaxYears years
LoaderProcessors ==
    [start : {BaseYear},
     end : BaseYear .. (BaseYear + MaxYears - 1),
     balanced_panel : {TRUE},
     excluding_states :
        {[shape |-> "list", text |-> "",
          items |-> <<"DC", "FM", "MH", "MP", "PR", "PW", "VI", "GU", "AS">>]},
     undergraduate_institutions : {TRUE}]

\* every directory with at most MaxFaults files that are not in condition
\* "ok" and at most MaxSourceRows rows in its tables together
InitLoader ==
    /\ pc = "load"
    /\ processor \in LoaderProcessors
    /\ LET folders == Folders(processor)
       IN  \E condition \in [DOMAIN folders -> Conditions] :
             /\ Cardinality({k \in DOMAIN folders : condition[k] # "ok"})
                   <= MaxFaults
             /\ \E lens \in [DOMAIN folders -> 0 .. MaxSourceRows] :
                  /\ SumTo(lens, Len(folders)) <= MaxSourceRows
                  /\ \A k \in DOMAIN folders :
                        condition[k] # "ok" => lens[k] = 0
                  /\ \E draws \in [1 .. SumTo(lens, Len(folders)) -> Draws] :
                       /\ \A k \in DOMAIN folders :
                             folders[k].prefix = "sfa"
                               => \A i \in 1 .. lens[k] :
                                     LET d == draws[SumTo(lens, k - 1) + i]
                                     IN  d.UGOFFER = 1 /\ d.CONTROL = 1
                       /\ raw = [key \in Range(folders) |->
                                   LET k == CHOOSE j \in DOMAIN folders :
                                               folders[j] = key
                                   IN  File(key.prefix, condition[k], lens[k],
                                            SumTo(lens, k - 1), draws)]
    /\ loaded = NoLoad
    /\ panel_data = <<>>
    /\ cleaned = NoResult
    /\ recleaned = NoResult
    /\ analyzer = NoAnalyzer
    /\ state_data = <<>>
    /\ simulated_data = <<>>
    /\ summary = NoSummary

\* df = processor._data_loader()
Load ==
    /\ pc = "load"
    /\ loaded' = DataLoader(processor, raw)
    /\ panel_data' = loaded'.panel
    /\ pc' = IF loaded'.status = "returned" THEN "clean" ELSE "exited"
    /\ UNCHANGED <<processor, raw, cleaned, recleaned, analyzer, state_data,
                   simulated_data, summary>>

NextLoader == Load \/ Clean \/ Reclean

SpecLoader == InitLoader /\ [][NextLoader]_vars

-----------------------------------------------------------------------------
(* Claims about the loader *)

\* the columns _data_loader selects from the table of a folder
Required(key) == IF key.prefix = "hd" THEN HdColumns ELSE SfaColumns

\* the file of the folder exists, is read, and holds the required columns
Usable(key) ==
    /\ raw[key].status = "ok"
    /\ Required(key) \subseteq raw[key].columns

\* the rows of the directory table of year y that have a match in the aid
\* table of that year
Joined(y) ==
    {h \in Range(raw[HdKey(y + 1)].rows) :
        \E f \in Range(raw[SfaKey(y + 1)].rows) : f.UNITID = h.UNITID}

\* C6: in the panel returned by _data_loader every row has degree_bach and
\* public in {0, 1}, and comes from a directory row of its year and
\* institution with degree_bach = 1 exactly if UGOFFER is 1 and public = 1
\* exactly if CONTROL is 1 (a missing code gives 0); every directory row
\* that has a match in the aid table has such a row in the panel.
C6_StrictBooleanRecode ==
    (loaded.status = "returned") =>
        /\ \A k \in DOMAIN loaded.panel :
              LET p == loaded.panel[k]
              IN  /\ p.degree_bach \in {0, 1}
                  /\ p.public \in {0, 1}
                  /\ \E h \in Joined(p.year) :
                        /\ h.UNITID = p.ID_IPEDS
                        /\ (p.degree_bach = 1) <=> (h.UGOFFER = 1)
                        /\ (p.public = 1) <=> (h.CONTROL = 1)
        /\ \A y \in processor.start .. processor.end :
              \A h \in Joined(y) :
                 \E k \in DOMAIN loaded.panel :
                    /\ loaded.panel[k].year = y
                    /\ loaded.panel[k].ID_IPEDS = h.UNITID
                    /\ (loaded.panel[k].degree_bach = 1) <=> (h.UGOFFER = 1)
                    /\ (loaded.panel[k].public = 1) <=> (h.CONTROL = 1)

\* C6 witness: an institution is listed twice in the directory of a year,
\* with UGOFFER = 1, CONTROL = 1 and with UGOFFER missing, CONTROL = 2; the
\* panel holds the first recoded to 1, 1 and the second recoded to 0, 0.
C6_Witness ==
    /\ loaded.status = "returned"
    /\ Len(loaded.panel) = 2
    /\ loaded.panel[1].degree_bach = 1 /\ loaded.panel[1].public = 1
    /\ loaded.panel[2].degree_bach = 0 /\ loaded.panel[2].public = 0
    /\ LET hd == raw[HdKey(loaded.panel[1].year + 1)].rows
       IN  /\ Len(hd) = 2
           /\ hd[1].UGOFFER = 1 /\ hd[1].CONTROL = 1
           /\ hd[2].UGOFFER = NaN /\ hd[2].CONTROL = 2

\* C8: if a source file of the year range is missing (or unreadable) or a
\* required column is absent from a table, _data_loader exits the process
\* and returns no panel; a panel is returned only when every file of every
\* year is there with its columns, and nothing runs after an exit.
C8_NoPartialPanel ==
    (pc # "load") =>
        /\ (\E key \in DOMAIN raw : ~Usable(key))
              => /\ loaded.status = "exit"
                 /\ loaded.panel = <<>>
                 /\ pc = "exited"
                 /\ panel_data = <<>>
                 /\ cleaned = NoResult
        /\ (loaded.status = "returned")
              => \A y \in processor.start .. processor.end :
                    Usable(HdKey(y + 1)) /\ Usable(SfaKey(y + 1))

\* C8 witness: one year of two has both tables, with rows that join, the
\* other lacks a file or a column, and the load exits without a panel.
C8_Witness ==
    /\ pc = "exited"
    /\ loaded.status = "exit"
    /\ processor.end > processor.start
    /\ \E y \in processor.start .. processor.end :
          /\ Usable(HdKey(y + 1)) /\ Usable(SfaKey(y + 1))
          /\ Joined(y) # {}

\* no two rows of the table share the pair (ID_IPEDS, year)
KeyUnique(rows) ==
    \A i, j \in DOMAIN rows :
        (/\ rows[i].ID_IPEDS = rows[j].ID_IPEDS
         /\ rows[i].year = rows[j].year) => i = j

\* C11: institution identifier + year is a unique key of every panel
\* _data_loader returns and of every panel _data_cleaner returns from it,
\* whatever the source tables hold.
C11_UniqueKey ==
    /\ loaded.status = "returned" => KeyUnique(panel_data)
    /\ cleaned.status = "returned" => KeyUnique(cleaned.rows)

=============================================================================
